---- MODULE Spec2Model ----
(***************************************************************************)
(* A model of sqlitefspath: a file tree (directories, files, hardlinks)    *)
(* kept in two SQLite relations, fs and data, behind pathlib-style path    *)
(* objects that cache their resolution.                                    *)
(*                                                                         *)
(* fs    : id -> [name, parent_id, file_id]   (table fs)                   *)
(* data  : file_id -> [link_count, data]      (table data)                 *)
(* seq   : the AUTOINCREMENT counter of fs (sqlite_sequence)               *)
(* intx  : the connection has an open transaction                          *)
(* disk  : the last committed [fs, data, seq] of the connection            *)
(* obj   : one path object per segment sequence, with its _file_id slot   *)
(*         (_node_id is written and never read); Path(p) replaces the     *)
(*         object by a new one                                             *)
(* last  : the last call made and what it returned or raised               *)
(* pure  : strings given to the path constructor, and what the constructor *)
(*         and the pure path methods made of them                          *)
(* two   : two connections on one database file, each running one call    *)
(*         statement by statement                                          *)
(*                                                                         *)
(* Spec is one connection on a new database. SpecFile adds closing the     *)
(* connection and opening the same database file again, SpecPublic adds    *)
(* rmdir and clear. SpecPure is the parsing of raw strings into paths,     *)
(* SpecTwo the two connections.                                            *)
(***************************************************************************)
EXTENDS Integers, Sequences, FiniteSets, TLC

VARIABLES fs, data, seq, intx, disk, obj, last, pure, two

vars == <<fs, data, seq, intx, disk, obj, last, pure, two>>

----------------------------------------------------------------------------
(* Bound: the largest id of table fs, the root's included. *)

MaxSeq == 3

(* Program constants *)

ROOT_ID == 1
NULL == -1
UNSET == -2
S_IFDIR == 16384
S_IFREG == 32768

(* The segment sequences and the byte strings the callers use: the root,   *)
(* two names below it and one name below a name; the empty byte string and *)
(* a non-empty one.                                                        *)
Paths == {<<>>, <<"a">>, <<"b">>, <<"a", "b">>}
Bytes == {<<>>, <<1>>}

Front(s) == SubSeq(s, 1, Len(s) - 1)
Last(s) == s[Len(s)]
MaxOf(S) == CHOOSE x \in S : \A y \in S : y <= x
MinOf(S) == CHOOSE x \in S : \A y \in S : x <= y

(* A scan run from the last row to the first. *)
RECURSIVE Ascending_reversed(_)
Ascending_reversed(S) ==
    IF S = {} THEN <<>> ELSE <<MaxOf(S)>> \o Ascending_reversed(S \ {MaxOf(S)})

(* The rows of a table in the order a scan of the table visits them: by    *)
(* ascending rowid.                                                        *)
RECURSIVE Ascending(_)
Ascending(S) ==
    IF S = {} THEN <<>> ELSE <<MinOf(S)>> \o Ascending(S \ {MinOf(S)})

----------------------------------------------------------------------------
(* The store as one connection sees it. *)

Store(f, d, s, t) == [fs |-> f, data |-> d, seq |-> s, intx |-> t]

RootRow == [name |-> "root", parent_id |-> NULL, file_id |-> NULL]

(* SqliteConnect.__init__ on a new database: the root row, no content. *)
NewStore == Store((ROOT_ID :> RootRow), <<>>, ROOT_ID, FALSE)

(* SELECT ... FROM fs WHERE name = ? AND parent_id = ? *)
Lookup(f, segment, parent_id) ==
    {i \in DOMAIN f : f[i].name = segment /\ f[i].parent_id = parent_id}

(* INSERT INTO fs ... RETURNING rowid, on a name that is free: the new id  *)
(* is the AUTOINCREMENT successor of every id handed out so far.           *)
InsertFsRow(st, segment, parent_id, file_id) ==
    [st EXCEPT !.fs = st.fs @@ ((st.seq + 1) :>
                        [name |-> segment, parent_id |-> parent_id, file_id |-> file_id]),
               !.seq = st.seq + 1,
               !.intx = TRUE]

(* INSERT INTO data (link_count, data) VALUES (1, ?) RETURNING file_id:    *)
(* an INTEGER PRIMARY KEY without AUTOINCREMENT takes max(rowid) + 1.      *)
NewFileId(d) == IF DOMAIN d = {} THEN 1 ELSE MaxOf(DOMAIN d) + 1

_find_node(f, parent_id, segment) ==
    LET m == Lookup(f, segment, parent_id)
    IN  IF m = {}
        THEN [err |-> "FileNotFoundError", node_id |-> NULL, file_id |-> NULL]
        ELSE LET i == CHOOSE i \in m : TRUE
             IN  [err |-> "ok", node_id |-> i, file_id |-> f[i].file_id]

(* The loop of _get_file_id over the segments; file_id is unbound when    *)
(* there is no segment.                                                    *)
RECURSIVE FindNodes(_, _, _, _)
FindNodes(f, parent_id, segs, found) ==
    IF segs = <<>>
    THEN found
    ELSE LET r == _find_node(f, parent_id, Head(segs))
         IN  IF r.err # "ok" THEN r ELSE FindNodes(f, r.node_id, Tail(segs), r)

_get_file_id(f, o, segs) ==
    IF o.file_id # UNSET
    THEN [err |-> "ok", file_id |-> o.file_id]
    ELSE LET r == FindNodes(f, ROOT_ID, segs,
                            [err |-> "UnboundLocalError", node_id |-> NULL, file_id |-> NULL])
         IN  [err |-> r.err, file_id |-> r.file_id]

(* A statement that writes opens the transaction, also when it fails. *)
Begin(st) == [st EXCEPT !.intx = TRUE]

(* The unconditional insert takes an existing row for its own. *)
_insert_directory_lenient(st, segment, parent_id) ==
    LET m == Lookup(st.fs, segment, parent_id)
    IN  IF m # {}
        THEN [err |-> "ok", node_id |-> CHOOSE i \in m : TRUE, st |-> Begin(st)]
        ELSE [err |-> "ok", node_id |-> st.seq + 1,
              st |-> InsertFsRow(st, segment, parent_id, NULL)]

_insert_directory(st, segment, parent_id) ==
    IF Lookup(st.fs, segment, parent_id) # {}
    THEN [err |-> "FileExistsError", node_id |-> NULL, st |-> Begin(st)]
    ELSE [err |-> "ok", node_id |-> st.seq + 1,
          st |-> InsertFsRow(st, segment, parent_id, NULL)]

(* The conditional insert without its ON CONFLICT clause. *)
_insert_ignore_directory_strict(st, segment, parent_id) ==
    IF Lookup(st.fs, segment, parent_id) # {}
    THEN [err |-> "FileExistsError", node_id |-> NULL, st |-> Begin(st)]
    ELSE [err |-> "ok", node_id |-> st.seq + 1,
          st |-> InsertFsRow(st, segment, parent_id, NULL)]

(* The conditional insert without the test of the returned file_id. *)
_insert_ignore_directory_anykind(st, segment, parent_id) ==
    LET m == Lookup(st.fs, segment, parent_id)
    IN  IF m = {}
        THEN [err |-> "ok", node_id |-> st.seq + 1,
              st |-> InsertFsRow(st, segment, parent_id, NULL)]
        ELSE [err |-> "ok", node_id |-> CHOOSE i \in m : TRUE, st |-> Begin(st)]

(* An upsert that found its row: the row is written back as it is, and the *)
(* id the statement took from the AUTOINCREMENT counter before it met the  *)
(* conflict stays taken (sqlite_sequence is written in the transaction).   *)
UpsertExisting(st) == [st EXCEPT !.seq = st.seq + 1, !.intx = TRUE]

(* ON CONFLICT DO UPDATE SET file_id = excluded.file_id: the row found is   *)
(* given the file_id of the row that was to be inserted, which is NULL.    *)
_insert_ignore_directory_excluded(st, segment, parent_id) ==
    LET m == Lookup(st.fs, segment, parent_id)
    IN  IF m = {}
        THEN [err |-> "ok", node_id |-> st.seq + 1,
              st |-> InsertFsRow(st, segment, parent_id, NULL)]
        ELSE LET i == CHOOSE i \in m : TRUE
             IN  [err |-> "ok", node_id |-> i,
                  st |-> [UpsertExisting(st) EXCEPT !.fs[i].file_id = NULL]]

(* INSERT ... ON CONFLICT DO UPDATE SET file_id = file_id RETURNING rowid, *)
(* file_id: an existing row is left as it is.                              *)
_insert_ignore_directory(st, segment, parent_id) ==
    LET m == Lookup(st.fs, segment, parent_id)
    IN  IF m = {}
        THEN [err |-> "ok", node_id |-> st.seq + 1,
              st |-> InsertFsRow(st, segment, parent_id, NULL)]
        ELSE LET i == CHOOSE i \in m : TRUE
             IN  IF st.fs[i].file_id # NULL
                 THEN [err |-> "FileExistsError", node_id |-> NULL,
                       st |-> UpsertExisting(st)]
                 ELSE [err |-> "ok", node_id |-> i, st |-> UpsertExisting(st)]

(* The select without its test of file_id: a file passes for a directory. *)
_select_directory_anykind(f, segment, parent_id) ==
    LET m == Lookup(f, segment, parent_id)
    IN  IF m = {}
        THEN [err |-> "FileNotFoundError", node_id |-> NULL]
        ELSE [err |-> "ok", node_id |-> CHOOSE i \in m : TRUE]

_select_directory(f, segment, parent_id) ==
    LET m == {i \in Lookup(f, segment, parent_id) : f[i].file_id = NULL}
    IN  IF m = {}
        THEN [err |-> "FileNotFoundError", node_id |-> NULL]
        ELSE [err |-> "ok", node_id |-> CHOOSE i \in m : TRUE]

(* for segment in self.segments[:-1]: parent_id = self._select_directory() *)
RECURSIVE SelectDirectories(_, _, _)
SelectDirectories(f, segs, parent_id) ==
    IF segs = <<>>
    THEN [err |-> "ok", node_id |-> parent_id]
    ELSE LET r == _select_directory(f, Head(segs), parent_id)
         IN  IF r.err # "ok" THEN r ELSE SelectDirectories(f, Tail(segs), r.node_id)

(* The select of iterdir without its WHERE clause. *)
SelectChildren_all(f, parent_id) ==
    Ascending({i \in DOMAIN f : f[i].parent_id # NULL})

(* SELECT id, name, file_id FROM fs WHERE parent_id = ?: no index of fs    *)
(* begins with parent_id, so the statement scans the table and the rows    *)
(* come by ascending id.                                                   *)
SelectChildren(f, parent_id) ==
    Ascending({i \in DOMAIN f : f[i].parent_id = parent_id})

(* The loop creates every ancestor and does not advance parent_id. *)
RECURSIVE InsertIgnoreDirectories_flat(_, _, _)
InsertIgnoreDirectories_flat(st, segs, parent_id) ==
    IF segs = <<>>
    THEN [err |-> "ok", node_id |-> parent_id, st |-> st]
    ELSE LET r == _insert_ignore_directory(st, Head(segs), parent_id)
         IN  IF r.err # "ok" THEN r ELSE InsertIgnoreDirectories_flat(r.st, Tail(segs), parent_id)

(* for segment in self.segments[:-1]: parent_id = self._insert_ignore_directory() *)
RECURSIVE InsertIgnoreDirectories(_, _, _)
InsertIgnoreDirectories(st, segs, parent_id) ==
    IF segs = <<>>
    THEN [err |-> "ok", node_id |-> parent_id, st |-> st]
    ELSE LET r == _insert_ignore_directory(st, Head(segs), parent_id)
         IN  IF r.err # "ok" THEN r ELSE InsertIgnoreDirectories(r.st, Tail(segs), r.node_id)

----------------------------------------------------------------------------
(* Content rows. *)

_read_file_id(d, file_id) ==
    IF file_id \in DOMAIN d
    THEN [err |-> "ok", filesize |-> Len(d[file_id].data), data |-> d[file_id].data]
    ELSE [err |-> "AssertionError", filesize |-> NULL, data |-> <<>>]

(* length(data) left out of the select. *)
_read_file_meta_id_nosize(d, file_id) ==
    IF file_id \in DOMAIN d
    THEN [err |-> "ok", filesize |-> 0, link_count |-> d[file_id].link_count]
    ELSE [err |-> "AssertionError", filesize |-> NULL, link_count |-> NULL]

_read_file_meta_id(d, file_id) ==
    IF file_id \in DOMAIN d
    THEN [err |-> "ok", filesize |-> Len(d[file_id].data), link_count |-> d[file_id].link_count]
    ELSE [err |-> "AssertionError", filesize |-> NULL, link_count |-> NULL]

_read_file_existing(st, segment, parent_id) ==
    LET m == Lookup(st.fs, segment, parent_id)
    IN  IF m = {}
        THEN [err |-> "FileNotFoundError", file_id |-> NULL]
        ELSE LET file_id == st.fs[CHOOSE i \in m : TRUE].file_id
             IN  IF file_id = NULL
                 THEN [err |-> "PermissionError", file_id |-> NULL]
                 ELSE [err |-> _read_file_id(st.data, file_id).err, file_id |-> file_id]

(* The UPDATE misses its row. *)
_insert_file_overwrite_id_lost(d, bytes, file_id) == d

(* The row is replaced whole, with the link_count of a new row. *)
_insert_file_overwrite_id_replaced(d, bytes, file_id) ==
    IF file_id \in DOMAIN d
    THEN [d EXCEPT ![file_id] = [link_count |-> 1, data |-> bytes]]
    ELSE d

(* The UPDATE without its WHERE clause: every content row takes the bytes. *)
_insert_file_overwrite_id_everyrow(d, bytes, file_id) ==
    [k \in DOMAIN d |-> [d[k] EXCEPT !.data = bytes]]

(* UPDATE data SET data = ? WHERE file_id = ? *)
_insert_file_overwrite_id(d, bytes, file_id) ==
    IF file_id \in DOMAIN d
    THEN [d EXCEPT ![file_id].data = bytes]
    ELSE d

(* An overwrite that gives the name a content row of its own. *)
_insert_file_overwrite_unshared(st, segment, parent_id, bytes) ==
    LET m == Lookup(st.fs, segment, parent_id)
        file_id == NewFileId(st.data)
        withrow == [st EXCEPT !.data =
                       st.data @@ (file_id :> [link_count |-> 1, data |-> bytes])]
    IN  IF m = {}
        THEN [node_id |-> st.seq + 1, file_id |-> file_id,
              st |-> InsertFsRow(withrow, segment, parent_id, file_id)]
        ELSE LET i == CHOOSE i \in m : TRUE
             IN  IF st.fs[i].file_id = NULL
                 THEN [node_id |-> i, file_id |-> NULL, st |-> st]
                 ELSE [node_id |-> i, file_id |-> file_id,
                       st |-> [withrow EXCEPT !.fs[i].file_id = file_id, !.intx = TRUE]]

(* An overwrite that does not look at the kind of the row it finds: a     *)
(* directory is given a content row.                                       *)
_insert_file_overwrite_anykind(st, segment, parent_id, bytes) ==
    LET m == Lookup(st.fs, segment, parent_id)
        file_id == NewFileId(st.data)
        withrow == [st EXCEPT !.data =
                       st.data @@ (file_id :> [link_count |-> 1, data |-> bytes])]
    IN  IF m = {}
        THEN [node_id |-> st.seq + 1, file_id |-> file_id,
              st |-> InsertFsRow(withrow, segment, parent_id, file_id)]
        ELSE LET i == CHOOSE i \in m : TRUE
             IN  IF st.fs[i].file_id = NULL
                 THEN [node_id |-> i, file_id |-> file_id,
                       st |-> [withrow EXCEPT !.fs[i].file_id = file_id, !.intx = TRUE]]
                 ELSE [node_id |-> i, file_id |-> st.fs[i].file_id,
                       st |-> [st EXCEPT !.data =
                                   _insert_file_overwrite_id(st.data, bytes, st.fs[i].file_id),
                                         !.intx = TRUE]]

(* The tree row of a new file is inserted without its content row. *)
_insert_file_overwrite_rowless(st, segment, parent_id, bytes) ==
    LET m == Lookup(st.fs, segment, parent_id)
    IN  IF m = {}
        THEN LET file_id == NewFileId(st.data)
             IN  [node_id |-> st.seq + 1, file_id |-> file_id,
                  st |-> InsertFsRow(st, segment, parent_id, file_id)]
        ELSE LET i == CHOOSE i \in m : TRUE
                 file_id == st.fs[i].file_id
             IN  IF file_id = NULL
                 THEN [node_id |-> i, file_id |-> NULL, st |-> st]
                 ELSE [node_id |-> i, file_id |-> file_id,
                       st |-> [st EXCEPT !.data =
                                   _insert_file_overwrite_id(st.data, bytes, file_id),
                                         !.intx = TRUE]]

_insert_file_overwrite(st, segment, parent_id, bytes) ==
    LET m == Lookup(st.fs, segment, parent_id)
    IN  IF m = {}
        THEN LET file_id == NewFileId(st.data)
                 withrow == [st EXCEPT !.data =
                                st.data @@ (file_id :> [link_count |-> 1, data |-> bytes])]
             IN  [node_id |-> st.seq + 1, file_id |-> file_id,
                  st |-> InsertFsRow(withrow, segment, parent_id, file_id)]
        ELSE LET i == CHOOSE i \in m : TRUE
                 file_id == st.fs[i].file_id
             IN  IF file_id = NULL
                 THEN [node_id |-> i, file_id |-> NULL, st |-> st]
                 ELSE [node_id |-> i, file_id |-> file_id,
                       st |-> [st EXCEPT !.data =
                                   _insert_file_overwrite_id(st.data, bytes, file_id),
                                         !.intx = TRUE]]

(* The new name is inserted and the count is left as it was. *)
IncrementLinkCount_skipped(d, file_id) == d

(* UPDATE data SET link_count = link_count + 1 WHERE file_id = ? *)
IncrementLinkCount(d, file_id) ==
    [d EXCEPT ![file_id].link_count = @ + 1]

(* The count is raised before the insert of the name is tried. *)
_insert_hardlink_new_counted(st, segment, parent_id, file_id) ==
    IF file_id \notin DOMAIN st.data
    THEN [err |-> "AssertionError", node_id |-> NULL, link_count |-> NULL, st |-> Begin(st)]
    ELSE LET d == IncrementLinkCount(st.data, file_id)
             counted == [st EXCEPT !.data = d, !.intx = TRUE]
         IN  IF Lookup(st.fs, segment, parent_id) # {}
             THEN [err |-> "FileExistsError", node_id |-> NULL, link_count |-> NULL,
                   st |-> counted]
             ELSE [err |-> "ok", node_id |-> st.seq + 1,
                   link_count |-> d[file_id].link_count,
                   st |-> InsertFsRow(counted, segment, parent_id, file_id)]

(* Table fs without its UNIQUE (name, parent_id): the insert never fails. *)
_insert_hardlink_new_unconstrained(st, segment, parent_id, file_id) ==
    LET linked == InsertFsRow(st, segment, parent_id, file_id)
    IN  IF file_id \notin DOMAIN st.data
        THEN [err |-> "AssertionError", node_id |-> NULL, link_count |-> NULL,
              st |-> linked]
        ELSE LET d == IncrementLinkCount(st.data, file_id)
             IN  [err |-> "ok", node_id |-> st.seq + 1,
                  link_count |-> d[file_id].link_count,
                  st |-> [linked EXCEPT !.data = d]]

_insert_hardlink_new(st, segment, parent_id, file_id) ==
    IF Lookup(st.fs, segment, parent_id) # {}
    THEN [err |-> "FileExistsError", node_id |-> NULL, link_count |-> NULL,
          st |-> Begin(st)]
    ELSE LET linked == InsertFsRow(st, segment, parent_id, file_id)
         IN  IF file_id \notin DOMAIN st.data
             THEN [err |-> "AssertionError", node_id |-> NULL, link_count |-> NULL,
                   st |-> linked]
             ELSE LET d == IncrementLinkCount(st.data, file_id)
                  IN  [err |-> "ok", node_id |-> st.seq + 1,
                       link_count |-> d[file_id].link_count,
                       st |-> [linked EXCEPT !.data = d]]

----------------------------------------------------------------------------
(* The methods of SqliteFsPath. Each takes the connection's store st, the  *)
(* committed store dk, the path object o and its segments, and gives what  *)
(* is raised (err) or returned (ret), the store and the committed store    *)
(* afterwards, and the path object afterwards.                             *)

NewObj == [file_id |-> UNSET]

Result(err, ret, st, dk, o) == [err |-> err, ret |-> ret, st |-> st, disk |-> dk, o |-> o]

Raise(err, st, dk, o) == Result(err, NULL, st, dk, o)

(* self.conn.commit() *)
Commit(st) == [st EXCEPT !.intx = FALSE]

Committed(st) == [fs |-> st.fs, data |-> st.data, seq |-> st.seq]

mkdir(st, dk, o, segs, parents, exist_ok) ==
    LET anc == IF parents
               THEN InsertIgnoreDirectories(st, Front(segs), ROOT_ID)
               ELSE LET r == SelectDirectories(st.fs, Front(segs), ROOT_ID)
                    IN  [err |-> r.err, node_id |-> r.node_id, st |-> st]
    IN  IF anc.err # "ok" THEN Raise(anc.err, anc.st, dk, o)
        ELSE IF segs = <<>> THEN Raise("IndexError", anc.st, dk, o)
        ELSE LET leaf == IF exist_ok
                         THEN _insert_ignore_directory(anc.st, Last(segs), anc.node_id)
                         ELSE _insert_directory(anc.st, Last(segs), anc.node_id)
             IN  IF leaf.err # "ok" THEN Raise(leaf.err, leaf.st, dk, o)
                 ELSE Result("ok", NULL, Commit(leaf.st), Committed(leaf.st), o)

write_bytes(st, dk, o, segs, bytes) ==
    IF o.file_id = NULL THEN Raise("PermissionError", st, dk, o)
    ELSE IF o.file_id # UNSET
    THEN Result("ok", NULL,
                [st EXCEPT !.data = _insert_file_overwrite_id(st.data, bytes, o.file_id),
                           !.intx = TRUE],
                dk, o)
    ELSE LET anc == SelectDirectories(st.fs, Front(segs), ROOT_ID)
         IN  IF anc.err # "ok" THEN Raise(anc.err, st, dk, o)
             ELSE IF segs = <<>> THEN Raise("IndexError", st, dk, o)
             ELSE LET r == _insert_file_overwrite(st, Last(segs), anc.node_id, bytes)
                      o2 == [o EXCEPT !.file_id = r.file_id]
                  IN  IF r.file_id = NULL
                      THEN Raise("PermissionError", r.st, dk, o2)
                      ELSE Result("ok", NULL, Commit(r.st), Committed(r.st), o2)

read_bytes(st, dk, o, segs) ==
    LET res == IF o.file_id # UNSET
               THEN [err |-> "ok", o |-> o]
               ELSE LET anc == SelectDirectories(st.fs, Front(segs), ROOT_ID)
                    IN  IF anc.err # "ok" THEN [err |-> anc.err, o |-> o]
                        ELSE IF segs = <<>> THEN [err |-> "IndexError", o |-> o]
                        ELSE LET r == _read_file_existing(st, Last(segs), anc.node_id)
                             IN  IF r.err # "ok" THEN [err |-> r.err, o |-> o]
                                 ELSE [err |-> "ok", o |-> [o EXCEPT !.file_id = r.file_id]]
    IN  IF res.err # "ok" THEN Raise(res.err, st, dk, o)
        ELSE IF res.o.file_id = NULL THEN Raise("PermissionError", st, dk, res.o)
        ELSE LET r == _read_file_id(st.data, res.o.file_id)
             IN  IF r.err # "ok" THEN Raise(r.err, st, dk, res.o)
                 ELSE Result("ok", r.data, st, dk, res.o)

(* Every file is reported with a single name. *)
StatFile_single(link_count, filesize) ==
    [st_mode |-> S_IFREG, st_nlink |-> 1, st_size |-> filesize]

StatFile(link_count, filesize) ==
    [st_mode |-> S_IFREG, st_nlink |-> link_count, st_size |-> filesize]

StatResult(st_mode, st_nlink, st_size) ==
    [st_mode |-> st_mode, st_nlink |-> st_nlink, st_size |-> st_size]

stat(st, dk, o, segs) ==
    LET g == _get_file_id(st.fs, o, segs)
    IN  IF g.err # "ok" THEN Raise(g.err, st, dk, o)
        ELSE LET o2 == [o EXCEPT !.file_id = g.file_id]
             IN  IF g.file_id = NULL
                 THEN Result("ok", StatResult(S_IFDIR, 1, NULL), st, dk, o2)
                 ELSE LET r == _read_file_meta_id(st.data, g.file_id)
                      IN  IF r.err # "ok" THEN Raise(r.err, st, dk, o2)
                          ELSE Result("ok", StatFile(r.link_count, r.filesize), st, dk, o2)

(* is_dir answers as exists does. *)
Query_nokind(st, dk, o, segs, op) ==
    LET g == _get_file_id(st.fs, o, segs)
        answer == CASE op = "exists" -> TRUE
                    [] op = "is_file" -> g.file_id # NULL
                    [] op = "is_dir" -> TRUE
    IN  IF g.err = "FileNotFoundError" THEN Result("ok", FALSE, st, dk, o)
        ELSE IF g.err # "ok" THEN Raise(g.err, st, dk, o)
        ELSE Result("ok", answer, st, dk, [o EXCEPT !.file_id = g.file_id])

(* exists, is_file and is_dir: only FileNotFoundError is caught. *)
Query(st, dk, o, segs, op) ==
    LET g == _get_file_id(st.fs, o, segs)
        answer == CASE op = "exists" -> TRUE
                    [] op = "is_file" -> g.file_id # NULL
                    [] op = "is_dir" -> g.file_id = NULL
    IN  IF g.err = "FileNotFoundError" THEN Result("ok", FALSE, st, dk, o)
        ELSE IF g.err # "ok" THEN Raise(g.err, st, dk, o)
        ELSE Result("ok", answer, st, dk, [o EXCEPT !.file_id = g.file_id])

exists(st, dk, o, segs) == Query(st, dk, o, segs, "exists")

is_file(st, dk, o, segs) == Query(st, dk, o, segs, "is_file")

is_dir(st, dk, o, segs) == Query(st, dk, o, segs, "is_dir")

(* The new name is written through to the database file at once, the count *)
(* stays in the open transaction.                                          *)
hardlink_to_namefirst(st, dk, o, segs, target) ==
    LET anc == SelectDirectories(st.fs, Front(segs), ROOT_ID)
        t == _get_file_id(st.fs, NewObj, target)
    IN  IF anc.err # "ok" THEN Raise(anc.err, st, dk, o)
        ELSE IF t.err # "ok" THEN Raise(t.err, st, dk, o)
        ELSE IF t.file_id = NULL THEN Raise("PermissionError", st, dk, o)
        ELSE IF o.file_id # UNSET THEN Raise("FileExistsError", st, dk, o)
        ELSE IF segs = <<>> THEN Raise("IndexError", st, dk, o)
        ELSE LET r == _insert_hardlink_new(st, Last(segs), anc.node_id, t.file_id)
             IN  IF r.err # "ok" THEN Raise(r.err, r.st, dk, o)
                 ELSE Result("ok", NULL, r.st,
                             [fs |-> r.st.fs, data |-> dk.data, seq |-> r.st.seq], o)

(* The path object's own resolution is looked at before the target. *)
hardlink_to_selffirst(st, dk, o, segs, target) ==
    LET anc == SelectDirectories(st.fs, Front(segs), ROOT_ID)
        t == _get_file_id(st.fs, NewObj, target)
    IN  IF anc.err # "ok" THEN Raise(anc.err, st, dk, o)
        ELSE IF o.file_id # UNSET THEN Raise("FileExistsError", st, dk, o)
        ELSE IF t.err # "ok" THEN Raise(t.err, st, dk, o)
        ELSE IF t.file_id = NULL THEN Raise("PermissionError", st, dk, o)
        ELSE IF segs = <<>> THEN Raise("IndexError", st, dk, o)
        ELSE LET r == _insert_hardlink_new(st, Last(segs), anc.node_id, t.file_id)
             IN  IF r.err # "ok" THEN Raise(r.err, r.st, dk, o)
                 ELSE Result("ok", NULL, r.st, dk, o)

hardlink_to(st, dk, o, segs, target) ==
    LET anc == SelectDirectories(st.fs, Front(segs), ROOT_ID)
        t == _get_file_id(st.fs, NewObj, target)
    IN  IF anc.err # "ok" THEN Raise(anc.err, st, dk, o)
        ELSE IF t.err # "ok" THEN Raise(t.err, st, dk, o)
        ELSE IF t.file_id = NULL THEN Raise("PermissionError", st, dk, o)
        ELSE IF o.file_id # UNSET THEN Raise("FileExistsError", st, dk, o)
        ELSE IF segs = <<>> THEN Raise("IndexError", st, dk, o)
        ELSE LET r == _insert_hardlink_new(st, Last(segs), anc.node_id, t.file_id)
             IN  IF r.err # "ok" THEN Raise(r.err, r.st, dk, o)
                 ELSE Result("ok", NULL, r.st, dk, o)

unlink(st, dk, o, segs, missing_ok) == Raise("NotImplementedError", st, dk, o)

rmdir(st, dk, o, segs) == Raise("NotImplementedError", st, dk, o)

(* SqliteFsPath.with_meta: a path object made with its resolution. The     *)
(* names of fs hold no separator, so the segments are taken as they are.   *)
with_meta(segments, file_id) ==
    [segments |-> segments, parent_id |-> ROOT_ID, file_id |-> file_id]

(* SqliteFsPath.__eq__ *)
__eq__(x, y) == x.segments = y.segments /\ x.parent_id = y.parent_id

(* list(p.iterdir()): every segment is resolved as a directory, the cached *)
(* resolution is not used and not set.                                     *)
iterdir(st, dk, o, segs) ==
    LET dir == SelectDirectories(st.fs, segs, ROOT_ID)
    IN  IF dir.err # "ok" THEN Raise(dir.err, st, dk, o)
        ELSE LET ids == SelectChildren(st.fs, dir.node_id)
             IN  Result("ok",
                        [k \in 1..Len(ids) |->
                            with_meta(segs \o <<st.fs[ids[k]].name>>, st.fs[ids[k]].file_id)],
                        st, dk, o)

(* SqliteConnect.__len__ *)
__len__(f) == Cardinality(DOMAIN f) - 1

(* SqliteConnect.clear: both DELETEs, the root row included; the counter   *)
(* of ids is kept in sqlite_sequence and is not reset.                     *)
clear(st) == [st EXCEPT !.fs = <<>>, !.data = <<>>, !.intx = TRUE]

(* SqliteConnect.__init__ on a database file that holds dk: the tables are *)
(* cleared, the root row is inserted with its id given, and the result is  *)
(* committed.                                                              *)
SqliteConnect(dk) ==
    LET opened == Store(dk.fs, dk.data, dk.seq, FALSE)
        cleared == clear(opened)
        rooted == [cleared EXCEPT !.fs = (ROOT_ID :> RootRow)]
    IN  Commit(rooted)

----------------------------------------------------------------------------
(* Raw strings and their parsing into paths. A string is a sequence of     *)
(* characters; the separator, the dot and one letter are the characters.   *)

(* Bound: the length of a raw string. *)
MaxStr == 3

Chars == {"/", ".", "a"}

Strings == UNION {[1..n -> Chars] : n \in 0..MaxStr}

(* Argument lists of no string, one string and two strings. *)
OneArg == {<<>>} \cup {<<s>> : s \in Strings}
ArgLists == OneArg \cup {<<s, t>> : s \in Strings, t \in Strings}

(* str.startswith, str.endswith *)
startswith(s, c) == Len(s) > 0 /\ s[1] = c
endswith(s, c) == Len(s) > 0 /\ s[Len(s)] = c

(* str.find in the place of str.rfind: the first occurrence. *)
rfind_first(s, c) ==
    LET at == {i \in 1..Len(s) : s[i] = c}
    IN  IF at = {} THEN -1 ELSE MinOf(at) - 1

(* str.rfind: the position of the last occurrence, counted from 0, or -1. *)
rfind(s, c) ==
    LET at == {i \in 1..Len(s) : s[i] = c}
    IN  IF at = {} THEN -1 ELSE MaxOf(at) - 1

(* str.split(sep): the pieces between the separators, empty ones included. *)
RECURSIVE split(_, _)
split(s, sep) ==
    LET at == {i \in 1..Len(s) : s[i] = sep}
    IN  IF at = {}
        THEN <<s>>
        ELSE <<SubSeq(s, 1, MinOf(at) - 1)>> \o split(SubSeq(s, MinOf(at) + 1, Len(s)), sep)

(* itertools.chain.from_iterable *)
RECURSIVE chain(_)
chain(lists) == IF lists = <<>> THEN <<>> ELSE Head(lists) \o chain(Tail(lists))

(* The filter "if s" of the generator in __init__. *)
NonEmpty(s) == Len(s) > 0

(* The constructor that looks for a leading separator in its first         *)
(* argument only.                                                          *)
__init__firstonly(pathsegments) ==
    IF Len(pathsegments) > 0 /\ startswith(pathsegments[1], "/")
    THEN [err |-> "ValueError", segments |-> <<>>]
    ELSE [err |-> "ok",
          segments |-> SelectSeq(chain([k \in 1..Len(pathsegments) |->
                                           split(pathsegments[k], "/")]), NonEmpty)]

(* The constructor that keeps the empty pieces of its strings. *)
__init__unfiltered(pathsegments) ==
    IF \E k \in 1..Len(pathsegments) : startswith(pathsegments[k], "/")
    THEN [err |-> "ValueError", segments |-> <<>>]
    ELSE IF pathsegments = << <<>> >>
    THEN [err |-> "ok", segments |-> <<>>]
    ELSE [err |-> "ok",
          segments |-> chain([k \in 1..Len(pathsegments) |-> split(pathsegments[k], "/")])]

(* SqliteFsPurePath.__init__ on the strings pathsegments *)
__init__(pathsegments) ==
    IF \E k \in 1..Len(pathsegments) : startswith(pathsegments[k], "/")
    THEN [err |-> "ValueError", segments |-> <<>>]
    ELSE IF pathsegments = << <<>> >>
    THEN [err |-> "ok", segments |-> <<>>]
    ELSE [err |-> "ok",
          segments |-> SelectSeq(chain([k \in 1..Len(pathsegments) |->
                                           split(pathsegments[k], "/")]), NonEmpty)]

(* SqliteFsPath.__init__ on the strings pathsegments: the path objects     *)
(* that exist after the call, none when it raised.                         *)
SqliteFsPath(pathsegments) ==
    LET r == __init__(pathsegments)
    IN  [err |-> r.err,
         made |-> IF r.err = "ok"
                  THEN {[segments |-> r.segments, parent_id |-> ROOT_ID, file_id |-> UNSET]}
                  ELSE {}]

with_segments(pathsegments) == SqliteFsPath(pathsegments)

joinpath(x, pathsegments) == with_segments(x.segments \o pathsegments)

__truediv__(x, other) == joinpath(x, <<other>>)

__rtruediv__(x, other) == with_segments(<<other>> \o x.segments)

name(x) == IF Len(x.segments) > 0 THEN x.segments[Len(x.segments)] ELSE <<>>

suffix(x) ==
    LET n == name(x)
        pos == rfind(n, ".")
    IN  IF endswith(n, ".") THEN <<>>
        ELSE IF pos = -1 THEN <<>>
        ELSE IF pos = 0 THEN <<>>
        ELSE SubSeq(n, pos + 1, Len(n))

stem(x) ==
    LET n == name(x)
        pos == rfind(n, ".")
    IN  IF endswith(n, ".") THEN n
        ELSE IF pos = -1 THEN n
        ELSE IF pos = 0 THEN n
        ELSE SubSeq(n, 1, pos)

(* The strings a caller holds before it makes a path of them. *)
Given(args) ==
    [op |-> "given", args |-> args, more |-> <<>>, err |-> "ok", made |-> {}, text |-> <<>>]

----------------------------------------------------------------------------
(* Two connections on one database file. Each runs one call, a statement   *)
(* at a time. The first statement of a connection that writes takes the    *)
(* write lock of the file and the connection keeps it until it commits; a  *)
(* statement that needs the lock while the other connection is at work     *)
(* under it waits (the busy handler of sqlite3.connect, 5 s by default,    *)
(* taken to outlast the other call), and fails with OperationalError when  *)
(* the other connection has ended its call without a commit. A connection  *)
(* without the lock reads the committed database.                          *)
(*                                                                         *)
(* two.db0    : the committed database when the calls begin                *)
(* two.db     : the committed database                                     *)
(* two.work   : the database as the holder of the lock sees it             *)
(* two.holder : the connection that holds the write lock, 0 for none       *)
(* two.conn   : per connection the call, the statement reached (pc, k),    *)
(*              the locals parent_id, file_id, node_id, and what is raised *)

Conns == {1, 2}

RacePaths == {<<"a">>, <<"a", "b">>}

Idle ==
    [op |-> "none", segs |-> <<>>, parents |-> FALSE, exist_ok |-> FALSE, bytes |-> <<>>,
     pc |-> "idle", k |-> 0, parent_id |-> ROOT_ID, file_id |-> NULL, node_id |-> NULL,
     err |-> "ok"]

TwoConnections(db) ==
    [db0 |-> db, db |-> db, work |-> db, holder |-> 0, conn |-> [c \in Conns |-> Idle]]

(* The databases the two calls can find: a new one, one with the directory *)
(* a and one with the file a, each as an earlier call has committed it.    *)
Databases ==
    {Committed(NewStore),
     mkdir(NewStore, Committed(NewStore), NewObj, <<"a">>, FALSE, FALSE).disk,
     write_bytes(NewStore, Committed(NewStore), NewObj, <<"a">>, <<1>>).disk}

(* INSERT INTO data (link_count, data) VALUES (1, ?) RETURNING file_id *)
InsertDataRow(st, bytes) ==
    LET file_id == NewFileId(st.data)
    IN  [file_id |-> file_id,
         st |-> [st EXCEPT !.data = st.data @@ (file_id :> [link_count |-> 1, data |-> bytes]),
                           !.intx = TRUE]]

(* INSERT INTO fs (name, parent_id, file_id) VALUES (?, ?, ?) RETURNING    *)
(* rowid in _insert_file_overwrite: sqlite3.IntegrityError is not caught.  *)
InsertFileRow(st, segment, parent_id, file_id) ==
    IF Lookup(st.fs, segment, parent_id) # {}
    THEN [err |-> "IntegrityError", node_id |-> NULL, st |-> Begin(st)]
    ELSE [err |-> "ok", node_id |-> st.seq + 1,
          st |-> InsertFsRow(st, segment, parent_id, file_id)]

----------------------------------------------------------------------------
(* The state machine: one connection on a new database, and callers that   *)
(* make path objects and call their methods in any order.                  *)

NoArgs == [parents |-> FALSE, exist_ok |-> FALSE, missing_ok |-> FALSE,
           target |-> <<>>, bytes |-> <<>>]

Call(op, p, args, out) ==
    [op |-> op, path |-> p, parents |-> args.parents, exist_ok |-> args.exist_ok,
     missing_ok |-> args.missing_ok, target |-> args.target, bytes |-> args.bytes,
     err |-> out.err, ret |-> out.ret]

Current == Store(fs, data, seq, intx)

Apply(op, p, args, out) ==
    /\ out.st.seq <= MaxSeq
    /\ fs' = out.st.fs
    /\ data' = out.st.data
    /\ seq' = out.st.seq
    /\ intx' = out.st.intx
    /\ disk' = out.disk
    /\ obj' = [obj EXCEPT ![p] = out.o]
    /\ last' = Call(op, p, args, out)
    /\ UNCHANGED <<pure, two>>

Init ==
    /\ fs = NewStore.fs
    /\ data = NewStore.data
    /\ seq = NewStore.seq
    /\ intx = NewStore.intx
    /\ disk = Committed(NewStore)
    /\ obj = [p \in Paths |-> NewObj]
    /\ last = Call("SqliteConnect", <<>>, NoArgs, Raise("ok", NewStore, Committed(NewStore), NewObj))
    /\ pure = Given(<<>>)
    /\ two = TwoConnections(Committed(NewStore))

(* SqliteConnect.Path: a new path object for the segments p. *)
Path(p) ==
    Apply("Path", p, NoArgs, Raise("ok", Current, disk, NewObj))

Mkdir(p, parents, exist_ok) ==
    Apply("mkdir", p, [NoArgs EXCEPT !.parents = parents, !.exist_ok = exist_ok],
          mkdir(Current, disk, obj[p], p, parents, exist_ok))

WriteBytes(p, bytes) ==
    Apply("write_bytes", p, [NoArgs EXCEPT !.bytes = bytes],
          write_bytes(Current, disk, obj[p], p, bytes))

ReadBytes(p) ==
    Apply("read_bytes", p, NoArgs, read_bytes(Current, disk, obj[p], p))

Stat(p) ==
    Apply("stat", p, NoArgs, stat(Current, disk, obj[p], p))

Exists(p) ==
    Apply("exists", p, NoArgs, exists(Current, disk, obj[p], p))

IsFile(p) ==
    Apply("is_file", p, NoArgs, is_file(Current, disk, obj[p], p))

IsDir(p) ==
    Apply("is_dir", p, NoArgs, is_dir(Current, disk, obj[p], p))

HardlinkTo(p, target) ==
    Apply("hardlink_to", p, [NoArgs EXCEPT !.target = target],
          hardlink_to(Current, disk, obj[p], p, target))

Unlink(p, missing_ok) ==
    Apply("unlink", p, [NoArgs EXCEPT !.missing_ok = missing_ok],
          unlink(Current, disk, obj[p], p, missing_ok))

(* list(p.iterdir()); the caller keeps the path objects it was given in    *)
(* place of the ones it had (keep), or drops them.                         *)
Iterdir(p, keep) ==
    LET out == iterdir(Current, disk, obj[p], p)
        yielded == IF out.err = "ok" THEN {out.ret[k] : k \in DOMAIN out.ret} ELSE {}
        given(q) == {y \in yielded : y.segments = q}
    IN  /\ UNCHANGED <<fs, data, seq, intx, disk>>
        /\ obj' = [q \in Paths |->
                      IF keep /\ given(q) # {}
                      THEN [file_id |-> (CHOOSE y \in given(q) : TRUE).file_id]
                      ELSE obj[q]]
        /\ last' = Call("iterdir", p, NoArgs, out)
        /\ UNCHANGED <<pure, two>>

Next ==
    \/ \E p \in Paths : Path(p)
    \/ \E p \in Paths, parents \in BOOLEAN, exist_ok \in BOOLEAN : Mkdir(p, parents, exist_ok)
    \/ \E p \in Paths, bytes \in Bytes : WriteBytes(p, bytes)
    \/ \E p \in Paths : ReadBytes(p)
    \/ \E p \in Paths : Stat(p)
    \/ \E p \in Paths : Exists(p)
    \/ \E p \in Paths : IsFile(p)
    \/ \E p \in Paths : IsDir(p)
    \/ \E p \in Paths, target \in Paths : HardlinkTo(p, target)
    \/ \E p \in Paths, missing_ok \in BOOLEAN : Unlink(p, missing_ok)
    \/ \E p \in Paths, keep \in BOOLEAN : Iterdir(p, keep)

Spec == Init /\ [][Next]_vars

(* The database is a file: the connection is closed, which drops what it   *)
(* has not committed, and the file is opened again with SqliteConnect. The *)
(* path objects of the closed connection are gone.                         *)
Reopen ==
    LET out == SqliteConnect(disk)
    IN  /\ fs' = out.fs
        /\ data' = out.data
        /\ seq' = out.seq
        /\ intx' = out.intx
        /\ disk' = Committed(out)
        /\ obj' = [p \in Paths |-> NewObj]
        /\ last' = Call("SqliteConnect", <<>>, NoArgs, Raise("ok", out, Committed(out), NewObj))
        /\ UNCHANGED <<pure, two>>

NextFile == Next \/ Reopen

SpecFile == Init /\ [][NextFile]_vars

(* The public operations that Spec leaves out: rmdir on a path, and clear  *)
(* on the connection, which keeps the path objects the callers hold.       *)
Rmdir(p) ==
    Apply("rmdir", p, NoArgs, rmdir(Current, disk, obj[p], p))

Clear ==
    LET out == clear(Current)
    IN  /\ fs' = out.fs
        /\ data' = out.data
        /\ seq' = out.seq
        /\ intx' = out.intx
        /\ UNCHANGED <<disk, obj>>
        /\ last' = Call("clear", <<>>, NoArgs, Raise("ok", out, disk, NewObj))
        /\ UNCHANGED <<pure, two>>

NextPublic ==
    \/ Next
    \/ \E p \in Paths : Rmdir(p)
    \/ Clear

SpecPublic == Init /\ [][NextPublic]_vars

(* The pure paths: a caller holds some raw strings, makes a path of them,  *)
(* and reads a property of the path or joins more strings to it. The       *)
(* strings given in all stay within ArgLists.                              *)
MoreArgs(args) ==
    IF Len(args) = 0 THEN ArgLists
    ELSE IF Len(args) = 1 THEN OneArg
    ELSE {<<>>}

InitPure ==
    /\ fs = NewStore.fs
    /\ data = NewStore.data
    /\ seq = NewStore.seq
    /\ intx = NewStore.intx
    /\ disk = Committed(NewStore)
    /\ obj = [p \in Paths |-> NewObj]
    /\ last = Call("SqliteConnect", <<>>, NoArgs, Raise("ok", NewStore, Committed(NewStore), NewObj))
    /\ \E args \in ArgLists : pure = Given(args)
    /\ two = TwoConnections(Committed(NewStore))

Receiver == CHOOSE x \in pure.made : TRUE

HasReceiver == pure.op = "SqliteFsPath" /\ pure.made # {}

Made(op, more, out) ==
    /\ pure' = [pure EXCEPT !.op = op, !.more = more, !.err = out.err, !.made = out.made]
    /\ UNCHANGED <<fs, data, seq, intx, disk, obj, last, two>>

Read(op, text) ==
    /\ pure' = [pure EXCEPT !.op = op, !.text = text]
    /\ UNCHANGED <<fs, data, seq, intx, disk, obj, last, two>>

NewPath ==
    /\ pure.op = "given"
    /\ Made("SqliteFsPath", <<>>, SqliteFsPath(pure.args))

Joinpath(more) ==
    /\ HasReceiver
    /\ Made("joinpath", more, joinpath(Receiver, more))

Truediv(other) ==
    /\ HasReceiver
    /\ <<other>> \in MoreArgs(pure.args)
    /\ Made("__truediv__", <<other>>, __truediv__(Receiver, other))

Rtruediv(other) ==
    /\ HasReceiver
    /\ <<other>> \in MoreArgs(pure.args)
    /\ Made("__rtruediv__", <<other>>, __rtruediv__(Receiver, other))

Name == HasReceiver /\ Read("name", name(Receiver))

Suffix == HasReceiver /\ Read("suffix", suffix(Receiver))

Stem == HasReceiver /\ Read("stem", stem(Receiver))

NextPure ==
    \/ NewPath
    \/ \E more \in MoreArgs(pure.args) : Joinpath(more)
    \/ \E other \in Strings : Truediv(other)
    \/ \E other \in Strings : Rtruediv(other)
    \/ Name
    \/ Suffix
    \/ Stem

SpecPure == InitPure /\ [][NextPure]_vars

(* The two connections. *)
InitTwo ==
    /\ fs = NewStore.fs
    /\ data = NewStore.data
    /\ seq = NewStore.seq
    /\ intx = NewStore.intx
    /\ disk = Committed(NewStore)
    /\ obj = [p \in Paths |-> NewObj]
    /\ last = Call("SqliteConnect", <<>>, NoArgs, Raise("ok", NewStore, Committed(NewStore), NewObj))
    /\ pure = Given(<<>>)
    /\ \E db \in Databases : two = TwoConnections(db)

(* The database as connection c sees it. *)
View(c) == IF two.holder = c THEN two.work ELSE two.db

StoreOf(c) == Store(View(c).fs, View(c).data, View(c).seq, two.holder = c)

(* Every statement of a connection is admitted at once. *)
CanWrite_nolock(c) == TRUE

(* The write lock is free or c has it. *)
CanWrite(c) == two.holder \in {0, c}

(* The statement c is about to run writes. *)
WritesNext(c) ==
    LET cn == two.conn[c]
    IN  \/ cn.pc = "walk" /\ cn.op = "mkdir" /\ (cn.parents \/ cn.k = Len(cn.segs))
        \/ cn.pc \in {"insert_data", "insert_fs", "update"}

Stepped(c, cn) ==
    /\ two' = [two EXCEPT !.conn[c] = cn]
    /\ UNCHANGED <<fs, data, seq, intx, disk, obj, last, pure>>

Wrote(c, st, cn) ==
    /\ two' = [two EXCEPT !.holder = c, !.work = Committed(st), !.conn[c] = cn]
    /\ UNCHANGED <<fs, data, seq, intx, disk, obj, last, pure>>

Ended(cn, err) == [cn EXCEPT !.pc = "done", !.err = err]

(* A fresh path object's mkdir or write_bytes begins: parent_id =           *)
(* self.parent_id.                                                         *)
StartMkdir(c, p, parents, exist_ok) ==
    /\ two.conn[c].pc = "idle"
    /\ Stepped(c, [Idle EXCEPT !.op = "mkdir", !.segs = p, !.parents = parents,
                               !.exist_ok = exist_ok, !.pc = "walk", !.k = 1])

StartWrite(c, p, bytes) ==
    /\ two.conn[c].pc = "idle"
    /\ Stepped(c, [Idle EXCEPT !.op = "write_bytes", !.segs = p, !.bytes = bytes,
                               !.pc = "walk", !.k = 1])

(* The loops over self.segments[:-1]. *)
AncestorSelect(c) ==
    LET cn == two.conn[c]
        r == _select_directory(View(c).fs, cn.segs[cn.k], cn.parent_id)
    IN  /\ cn.pc = "walk"
        /\ cn.k < Len(cn.segs)
        /\ ~(cn.op = "mkdir" /\ cn.parents)
        /\ Stepped(c, IF r.err # "ok" THEN Ended(cn, r.err)
                      ELSE [cn EXCEPT !.k = cn.k + 1, !.parent_id = r.node_id])

AncestorUpsert(c) ==
    LET cn == two.conn[c]
        r == _insert_ignore_directory(StoreOf(c), cn.segs[cn.k], cn.parent_id)
    IN  /\ cn.pc = "walk"
        /\ cn.k < Len(cn.segs)
        /\ cn.op = "mkdir" /\ cn.parents
        /\ CanWrite(c)
        /\ Wrote(c, r.st, IF r.err # "ok" THEN Ended(cn, r.err)
                          ELSE [cn EXCEPT !.k = cn.k + 1, !.parent_id = r.node_id])

(* The statement of mkdir for self.segments[-1]. *)
LeafMkdir(c) ==
    LET cn == two.conn[c]
        r == IF cn.exist_ok
             THEN _insert_ignore_directory(StoreOf(c), cn.segs[cn.k], cn.parent_id)
             ELSE _insert_directory(StoreOf(c), cn.segs[cn.k], cn.parent_id)
    IN  /\ cn.pc = "walk"
        /\ cn.k = Len(cn.segs)
        /\ cn.op = "mkdir"
        /\ CanWrite(c)
        /\ Wrote(c, r.st, IF r.err # "ok" THEN Ended(cn, r.err)
                          ELSE [cn EXCEPT !.pc = "commit", !.node_id = r.node_id])

(* The SELECT of _insert_file_overwrite, and the PermissionError of        *)
(* write_bytes when it finds a directory.                                  *)
LeafSelect(c) ==
    LET cn == two.conn[c]
        m == Lookup(View(c).fs, cn.segs[cn.k], cn.parent_id)
        i == CHOOSE i \in m : TRUE
        file_id == View(c).fs[i].file_id
    IN  /\ cn.pc = "walk"
        /\ cn.k = Len(cn.segs)
        /\ cn.op = "write_bytes"
        /\ Stepped(c, IF m = {} THEN [cn EXCEPT !.pc = "insert_data"]
                      ELSE IF file_id = NULL THEN Ended([cn EXCEPT !.node_id = i], "PermissionError")
                      ELSE [cn EXCEPT !.pc = "update", !.node_id = i, !.file_id = file_id])

InsertData(c) ==
    LET cn == two.conn[c]
        r == InsertDataRow(StoreOf(c), cn.bytes)
    IN  /\ cn.pc = "insert_data"
        /\ CanWrite(c)
        /\ Wrote(c, r.st, [cn EXCEPT !.pc = "insert_fs", !.file_id = r.file_id])

InsertFile(c) ==
    LET cn == two.conn[c]
        r == InsertFileRow(StoreOf(c), cn.segs[cn.k], cn.parent_id, cn.file_id)
    IN  /\ cn.pc = "insert_fs"
        /\ CanWrite(c)
        /\ Wrote(c, r.st, IF r.err # "ok" THEN Ended(cn, r.err)
                          ELSE [cn EXCEPT !.pc = "commit", !.node_id = r.node_id])

UpdateData(c) ==
    LET cn == two.conn[c]
        st == StoreOf(c)
    IN  /\ cn.pc = "update"
        /\ CanWrite(c)
        /\ Wrote(c, [st EXCEPT !.data = _insert_file_overwrite_id(st.data, cn.bytes, cn.file_id)],
                 [cn EXCEPT !.pc = "commit"])

(* self.conn.commit(): what the connection sees becomes the committed      *)
(* database and the lock is given up.                                      *)
CommitTwo(c) ==
    /\ two.conn[c].pc = "commit"
    /\ two' = [two EXCEPT !.db = View(c), !.work = View(c), !.holder = 0,
                          !.conn[c] = Ended(two.conn[c], "ok")]
    /\ UNCHANGED <<fs, data, seq, intx, disk, obj, last, pure>>

(* The other connection ended its call in an open transaction and keeps    *)
(* the lock: "database is locked".                                         *)
LockedOut(c) ==
    /\ WritesNext(c)
    /\ ~CanWrite(c)
    /\ two.conn[two.holder].pc = "done"
    /\ Stepped(c, Ended(two.conn[c], "OperationalError"))

NextTwo ==
    \/ \E c \in Conns, p \in RacePaths, parents \in BOOLEAN, exist_ok \in BOOLEAN :
          StartMkdir(c, p, parents, exist_ok)
    \/ \E c \in Conns, p \in RacePaths, bytes \in Bytes : StartWrite(c, p, bytes)
    \/ \E c \in Conns : AncestorSelect(c)
    \/ \E c \in Conns : AncestorUpsert(c)
    \/ \E c \in Conns : LeafMkdir(c)
    \/ \E c \in Conns : LeafSelect(c)
    \/ \E c \in Conns : InsertData(c)
    \/ \E c \in Conns : InsertFile(c)
    \/ \E c \in Conns : UpdateData(c)
    \/ \E c \in Conns : CommitTwo(c)
    \/ \E c \in Conns : LockedOut(c)

SpecTwo == InitTwo /\ [][NextTwo]_vars

----------------------------------------------------------------------------
(* What the claims speak about. *)

(* The tree node a segment sequence names, NULL when it names none. *)
Node(f, segs) == FindNodes(f, ROOT_ID, segs,
                           [err |-> "ok", node_id |-> ROOT_ID, file_id |-> NULL]).node_id

IsFileNode(f, segs) == Node(f, segs) # NULL /\ f[Node(f, segs)].file_id # NULL

IsDirNode(f, segs) == Node(f, segs) # NULL /\ f[Node(f, segs)].file_id = NULL

(* Two names of one content row. *)
SameContent(f, p, q) ==
    /\ IsFileNode(f, p)
    /\ IsFileNode(f, q)
    /\ f[Node(f, p)].file_id = f[Node(f, q)].file_id

References(f, file_id) == {i \in DOMAIN f : f[i].file_id = file_id}

(* The path object kept for p, and a new one with the same segments. *)
Objects(p) == {obj[p], NewObj}

Prefixes(p) == {SubSeq(p, 1, n) : n \in 1..Len(p)}

Succeeded(op) == last.op = op /\ last.err = "ok"

----------------------------------------------------------------------------
(* C1: a write_bytes(p, b) that succeeds is read back: read_bytes(p), on   *)
(* the path object that wrote or on a new one with the same segments,      *)
(* returns exactly b, the empty byte string included.                      *)
C1_WriteReadRoundTrip ==
    Succeeded("write_bytes") =>
        \A o \in Objects(last.path) :
            LET r == read_bytes(Current, disk, o, last.path)
            IN  r.err = "ok" /\ r.ret = last.bytes

(* The empty byte string written over a file below a directory, through    *)
(* the path object that holds the file's resolution.                       *)
C1_Witness ==
    /\ Succeeded("write_bytes")
    /\ Len(last.path) = 2
    /\ last.bytes = <<>>
    /\ IsDirNode(fs, Front(last.path))
    /\ obj[last.path].file_id # UNSET
    /\ intx

(* C2: every content row has a link_count of at least 1 that equals the    *)
(* number of tree nodes referencing the row, after any sequence of calls,  *)
(* failed ones included.                                                   *)
C2_LinkCountIsReferenceCount ==
    \A file_id \in DOMAIN data :
        /\ data[file_id].link_count >= 1
        /\ data[file_id].link_count = Cardinality(References(fs, file_id))

(* A failed call on a tree that holds a content row with two names. *)
C2_Witness ==
    /\ last.err \notin {"ok", "NotImplementedError"}
    /\ \E file_id \in DOMAIN data : Cardinality(References(fs, file_id)) = 2

(* C3: hardlinked names share their content: a write through one name of a *)
(* content row is read back through every name the row had before the      *)
(* write, on a used path object as on a new one.                           *)
C3_HardlinksShareContent ==
    [][(last'.op = "write_bytes" /\ last'.err = "ok") =>
        \A q \in Paths :
            SameContent(fs, last'.path, q) =>
                \A o \in {obj'[q], NewObj} :
                    LET r == read_bytes(Current', disk', o, q)
                    IN  r.err = "ok" /\ r.ret = last'.bytes]_vars

(* An overwrite through one of two names, the other name held by a path    *)
(* object that was used before.                                            *)
C3_Witness ==
    /\ Succeeded("write_bytes")
    /\ last.bytes # <<>>
    /\ \E q \in Paths \ {last.path} :
        /\ SameContent(fs, last.path, q)
        /\ obj[q].file_id # UNSET

(* C4: a hardlink_to(q, p) that succeeds on a file p of link count n makes *)
(* st_nlink of both p and q equal to n + 1, and q names the content row of *)
(* p.                                                                      *)
C4_HardlinkIncrementsNlink ==
    [][(last'.op = "hardlink_to" /\ last'.err = "ok") =>
        LET q == last'.path
            p == last'.target
            file_id == fs[Node(fs, p)].file_id
            n == data[file_id].link_count
        IN  /\ IsFileNode(fs', q)
            /\ fs'[Node(fs', q)].file_id = file_id
            /\ \A x \in {p, q} : \A o \in {obj'[x], NewObj} :
                LET r == stat(Current', disk', o, x)
                IN  r.err = "ok" /\ r.ret.st_nlink = n + 1]_vars

(* A second name given to a file that had one. *)
C4_Witness ==
    /\ Succeeded("hardlink_to")
    /\ last.path # last.target
    /\ SameContent(fs, last.path, last.target)
    /\ data[fs[Node(fs, last.path)].file_id].link_count = 2

(* C5: unlink(p) on an existing file removes the tree node p, so that      *)
(* exists(p) is false, and takes one from the link_count of its content    *)
(* row; the row keeps its bytes for the names that remain and is deleted   *)
(* in the same step when the count reaches 0.                              *)
C5_UnlinkRemovesName ==
    [][(last'.op = "unlink" /\ IsFileNode(fs, last'.path)) =>
        LET p == last'.path
            file_id == fs[Node(fs, p)].file_id
            n == data[file_id].link_count
        IN  /\ Node(fs', p) = NULL
            /\ exists(Current', disk', NewObj, p).ret = FALSE
            /\ IF n = 1
               THEN file_id \notin DOMAIN data'
               ELSE /\ file_id \in DOMAIN data'
                    /\ data'[file_id].link_count = n - 1
                    /\ data'[file_id].data = data[file_id].data]_vars

(* C6: unlink(p, missing_ok) raises FileNotFoundError when p is absent and *)
(* missing_ok is false, returns without effect when p is absent and        *)
(* missing_ok is true, and raises PermissionError when p is a directory;   *)
(* the tree and the content rows are unchanged in each of these cases.     *)
C6_UnlinkErrors ==
    [][(last'.op = "unlink" /\ last'.path # <<>>) =>
        LET p == last'.path
            expected == IF IsDirNode(fs, p) THEN "PermissionError"
                        ELSE IF last'.missing_ok THEN "ok"
                        ELSE "FileNotFoundError"
        IN  ~IsFileNode(fs, p) =>
                /\ last'.err = expected
                /\ fs' = fs
                /\ data' = data]_vars

(* C7: mkdir(p, parents=True, exist_ok=True) is idempotent: after a call   *)
(* that succeeded, the same call again succeeds and leaves every tree row  *)
(* and every content row as the first call left it.                        *)
C7_MkdirIdempotent ==
    (Succeeded("mkdir") /\ last.parents /\ last.exist_ok) =>
        LET again == mkdir(Current, disk, obj[last.path], last.path, TRUE, TRUE)
        IN  /\ again.err = "ok"
            /\ again.st.fs = fs
            /\ again.st.data = data

(* A recursive, tolerant mkdir of a two-segment path has succeeded. *)
C7_Witness ==
    /\ Succeeded("mkdir")
    /\ last.parents
    /\ last.exist_ok
    /\ Len(last.path) = 2
    /\ IsDirNode(fs, last.path)

C10_MkdirExistOk ==
    [][(last'.op = "mkdir" /\ last'.exist_ok /\ last'.path # <<>>) =>
        LET p == last'.path
            blocked == \/ IsFileNode(fs, p)
                       \/ last'.parents /\ \E q \in Prefixes(p) : IsFileNode(fs, q)
        IN  /\ IsDirNode(fs, p) => last'.err = "ok" /\ fs' = fs /\ data' = data
            /\ blocked => last'.err = "FileExistsError" /\ fs' = fs /\ data' = data]_vars

(* A recursive, tolerant mkdir has failed below a name held by a file. *)
C10_Witness ==
    /\ last.op = "mkdir"
    /\ last.err = "FileExistsError"
    /\ last.parents
    /\ last.exist_ok
    /\ Len(last.path) = 2
    /\ IsFileNode(fs, Front(last.path))

(* A proper prefix of segs that is missing or is a file. *)
BrokenAncestor(f, segs) == \E q \in Prefixes(Front(segs)) : ~IsDirNode(f, q)

(* C11: read_bytes, write_bytes, iterdir, mkdir without parents and        *)
(* hardlink_to (on the new path) raise FileNotFoundError whenever an       *)
(* ancestor of the path is missing or is a file; read_bytes and stat raise *)
(* it also when the leaf is absent; the failure leaves every tree row and  *)
(* every content row as it was, so no ancestor is created.                 *)
C11_MissingAncestorNotFound ==
    [][LET p == last'.path
           resolving == \/ last'.op \in {"read_bytes", "write_bytes", "iterdir", "hardlink_to"}
                        \/ last'.op = "mkdir" /\ ~last'.parents
           leafless == /\ last'.op \in {"read_bytes", "stat"}
                       /\ p # <<>>
                       /\ Node(fs, p) = NULL
       IN  ((resolving /\ BrokenAncestor(fs, p)) \/ leafless) =>
               /\ last'.err = "FileNotFoundError"
               /\ fs' = fs
               /\ data' = data
               /\ __len__(fs') = __len__(fs)]_vars

(* A write below a name that a file holds has failed. *)
C11_Witness ==
    /\ last.op = "write_bytes"
    /\ last.err = "FileNotFoundError"
    /\ Len(last.path) = 2
    /\ IsFileNode(fs, Front(last.path))
    /\ Node(fs, last.path) = NULL

(* C12: read_bytes(p) and write_bytes(p, b) on a directory p raise         *)
(* PermissionError; afterwards p is a directory still (is_dir true and     *)
(* is_file false, on the path object used and on a new one), no content    *)
(* row was created and the number of tree nodes is unchanged.              *)
C12_DirectoryIsNotReadOrWritten ==
    [][(/\ last'.op \in {"read_bytes", "write_bytes"}
        /\ last'.path # <<>>
        /\ IsDirNode(fs, last'.path)) =>
            /\ last'.err = "PermissionError"
            /\ IsDirNode(fs', last'.path)
            /\ \A o \in {obj'[last'.path], NewObj} :
                /\ is_dir(Current', disk', o, last'.path).ret = TRUE
                /\ is_file(Current', disk', o, last'.path).ret = FALSE
            /\ DOMAIN data' = DOMAIN data
            /\ fs' = fs
            /\ __len__(fs') = __len__(fs)]_vars

(* A write to a directory through a new path object has failed. *)
C12_Witness ==
    /\ last.op = "write_bytes"
    /\ last.err = "PermissionError"
    /\ last.bytes # <<>>
    /\ IsDirNode(fs, last.path)
    /\ obj[last.path].file_id = NULL

(* C13: write_bytes on a path that names a file overwrites in place: it    *)
(* succeeds, no tree row and no content row is created, len(store) is      *)
(* unchanged, and the file keeps its file_id and its link_count. A         *)
(* write_bytes step creates rows only when the leaf was absent, and then   *)
(* exactly one tree node and one content row of link_count 1.              *)
C13_OverwriteInPlace ==
    [][last'.op = "write_bytes" =>
        LET p == last'.path
            file_id == fs[Node(fs, p)].file_id
            nodes == DOMAIN fs' \ DOMAIN fs
            rows == DOMAIN data' \ DOMAIN data
        IN  /\ IsFileNode(fs, p) =>
                /\ last'.err = "ok"
                /\ fs' = fs
                /\ DOMAIN data' = DOMAIN data
                /\ __len__(fs') = __len__(fs)
                /\ fs'[Node(fs', p)].file_id = file_id
                /\ data'[file_id].link_count = data[file_id].link_count
                /\ data'[file_id].data = last'.bytes
            /\ (fs' # fs \/ DOMAIN data' # DOMAIN data) =>
                /\ Node(fs, p) = NULL
                /\ last'.err = "ok"
                /\ \A i \in DOMAIN fs : i \in DOMAIN fs' /\ fs'[i] = fs[i]
                /\ DOMAIN data \subseteq DOMAIN data'
                /\ Cardinality(nodes) = 1
                /\ Cardinality(rows) = 1
                /\ __len__(fs') = __len__(fs) + 1
                /\ \A i \in nodes : Node(fs', p) = i /\ fs'[i].file_id \in rows
                /\ \A r \in rows : data'[r].link_count = 1
            /\ (Node(fs, p) = NULL /\ last'.err = "ok") =>
                Cardinality(nodes) = 1 /\ Cardinality(rows) = 1]_vars

(* A file of two names is overwritten through a path object that holds its *)
(* file_id.                                                                *)
C13_Witness ==
    /\ Succeeded("write_bytes")
    /\ IsFileNode(fs, last.path)
    /\ data[fs[Node(fs, last.path)].file_id].link_count = 2
    /\ intx

(* C14: hardlink_to(new, target), new and target named and the ancestors   *)
(* of new in place, raises FileNotFoundError when target does not exist,   *)
(* PermissionError when target is a directory, and FileExistsError when    *)
(* target is a file and the leaf of new exists in its parent as a file or  *)
(* as a directory; after each of these failures no tree node was added and *)
(* every link_count is unchanged.                                          *)
C14_HardlinkErrors ==
    [][(/\ last'.op = "hardlink_to"
        /\ last'.path # <<>>
        /\ last'.target # <<>>
        /\ ~BrokenAncestor(fs, last'.path)) =>
            LET new == last'.path
                target == last'.target
                expected == IF Node(fs, target) = NULL THEN "FileNotFoundError"
                            ELSE IF IsDirNode(fs, target) THEN "PermissionError"
                            ELSE IF Node(fs, new) # NULL THEN "FileExistsError"
                            ELSE "ok"
            IN  /\ last'.err = expected
                /\ expected # "ok" =>
                    /\ fs' = fs
                    /\ __len__(fs') = __len__(fs)
                    /\ data' = data]_vars

(* A link to a file has failed on a name that a directory holds, the       *)
(* insert of the name refused by the table.                                *)
C14_Witness ==
    /\ last.op = "hardlink_to"
    /\ last.err = "FileExistsError"
    /\ IsDirNode(fs, last.path)
    /\ IsFileNode(fs, last.target)
    /\ obj[last.path].file_id = UNSET
    /\ data[fs[Node(fs, last.target)].file_id].link_count = 1

(* The tree nodes directly below the node that segs names. *)
ChildNodes(f, segs) == {i \in DOMAIN f : f[i].parent_id = Node(f, segs)}

(* C15: iterdir(d) on a directory d, the root included, yields exactly the *)
(* immediate children of d, each once, each as a path one segment longer   *)
(* than d that is equal to a new path made for that child and whose        *)
(* is_file and is_dir answer by the kind of the child's row; a directory   *)
(* without children yields the empty sequence.                             *)
C15_IterdirYieldsChildren ==
    \A d \in Paths :
        IsDirNode(fs, d) =>
            LET r == iterdir(Current, disk, obj[d], d)
                kids == ChildNodes(fs, d)
            IN  /\ r.err = "ok"
                /\ Len(r.ret) = Cardinality(kids)
                /\ (kids = {}) <=> (r.ret = <<>>)
                /\ {r.ret[k].segments : k \in DOMAIN r.ret} = {d \o <<fs[i].name>> : i \in kids}
                /\ \A j, k \in DOMAIN r.ret : r.ret[j].segments = r.ret[k].segments => j = k
                /\ \A k \in DOMAIN r.ret :
                    LET y == r.ret[k]
                        o == [file_id |-> y.file_id]
                    IN  /\ Len(y.segments) = Len(d) + 1
                        /\ Node(fs, y.segments) \in kids
                        /\ __eq__(y, with_meta(y.segments, UNSET))
                        /\ is_file(Current, disk, o, y.segments).ret = IsFileNode(fs, y.segments)
                        /\ is_dir(Current, disk, o, y.segments).ret = IsDirNode(fs, y.segments)
                /\ (last.op = "iterdir" /\ last.path = d) => (last.err = "ok" /\ last.ret = r.ret)

(* The root was listed and has a file and a directory below it. *)
C15_Witness ==
    /\ Succeeded("iterdir")
    /\ last.path = <<>>
    /\ Len(last.ret) = 2
    /\ \E k \in DOMAIN last.ret : IsFileNode(fs, last.ret[k].segments)
    /\ \E k \in DOMAIN last.ret : IsDirNode(fs, last.ret[k].segments)

C17_StatReportsKindSizeLinks ==
    \A p \in Paths \ {<<>>} : \A o \in Objects(p) :
        LET r == stat(Current, disk, o, p)
            file_id == fs[Node(fs, p)].file_id
        IN  /\ IsFileNode(fs, p) =>
                /\ r.err = "ok"
                /\ r.ret.st_mode = S_IFREG
                /\ r.ret.st_size = Len(data[file_id].data)
                /\ r.ret.st_nlink = data[file_id].link_count
                /\ (Succeeded("write_bytes") /\ SameContent(fs, last.path, p)) =>
                        r.ret.st_size = Len(last.bytes)
            /\ IsDirNode(fs, p) =>
                /\ r.err = "ok"
                /\ r.ret.st_mode = S_IFDIR
                /\ r.ret.st_nlink = 1
                /\ r.ret.st_size = NULL
            /\ Node(fs, p) = NULL => r.err = "FileNotFoundError"
            /\ (last.op = "stat" /\ last.path = p /\ o = obj[p]) =>
                    (last.err = r.err /\ (r.err = "ok" => last.ret = r.ret))

(* stat was called on a file of two names that holds one byte. *)
C17_Witness ==
    /\ Succeeded("stat")
    /\ last.ret.st_mode = S_IFREG
    /\ last.ret.st_nlink = 2
    /\ last.ret.st_size = 1

(* C18: for every non-empty path p, exists(p) is true exactly when p       *)
(* resolves to a tree node, is_dir(p) exactly when that node has no        *)
(* file_id and is_file(p) exactly when it has one; so is_file and is_dir   *)
(* are never both true and exists(p) is is_file(p) or is_dir(p).           *)
C18_ExistsIsFileIsDir ==
    \A p \in Paths \ {<<>>} : \A o \in Objects(p) :
        LET e == exists(Current, disk, o, p)
            f == is_file(Current, disk, o, p)
            d == is_dir(Current, disk, o, p)
        IN  /\ e.err = "ok" /\ f.err = "ok" /\ d.err = "ok"
            /\ e.ret <=> Node(fs, p) # NULL
            /\ d.ret <=> IsDirNode(fs, p)
            /\ f.ret <=> IsFileNode(fs, p)
            /\ ~(f.ret /\ d.ret)
            /\ e.ret <=> (f.ret \/ d.ret)
            /\ (last.op \in {"exists", "is_file", "is_dir"} /\ last.path = p) =>
                    /\ last.err = "ok"
                    /\ last.ret = CASE last.op = "exists" -> e.ret
                                    [] last.op = "is_file" -> f.ret
                                    [] last.op = "is_dir" -> d.ret

(* is_dir has answered false for a file below a directory. *)
C18_Witness ==
    /\ Succeeded("is_dir")
    /\ last.ret = FALSE
    /\ Len(last.path) = 2
    /\ IsFileNode(fs, last.path)

(* C19: what was committed through one SqliteConnect on a database file is *)
(* there after the connection is closed and the file is opened with a new  *)
(* SqliteConnect: every file of the committed tree exists and has its      *)
(* content.                                                                *)
C19_ReopenKeepsCommitted ==
    [][last'.op = "SqliteConnect" =>
        \A p \in Paths :
            IsFileNode(disk.fs, p) =>
                /\ IsFileNode(fs', p)
                /\ exists(Current', disk', NewObj, p).ret = TRUE
                /\ read_bytes(Current', disk', NewObj, p).ret
                       = disk.data[disk.fs[Node(disk.fs, p)].file_id].data]_vars

(* C20: every mutating call that succeeds (mkdir, write_bytes to a new     *)
(* file, write_bytes over a file through any path object, hardlink_to) has *)
(* committed when it returns: no transaction is open and the committed     *)
(* store is the store the connection sees.                                 *)
C20_MutationsCommitted ==
    [][(last'.op \in {"mkdir", "write_bytes", "hardlink_to"} /\ last'.err = "ok") =>
        /\ ~intx'
        /\ disk' = Committed(Current')]_vars

----------------------------------------------------------------------------
(* C21: the new name of hardlink_to and the increment of the target's      *)
(* link_count reach the database file together or not at all: in every     *)
(* committed state each content row counts exactly the names that the      *)
(* committed tree holds for it, so no committed state has the new name     *)
(* without the incremented count or the incremented count without the new  *)
(* name.                                                                   *)
C21_HardlinkCommittedTogether ==
    /\ \A k \in DOMAIN disk.data :
          disk.data[k].link_count = Cardinality(References(disk.fs, k))
    /\ \A i \in DOMAIN disk.fs :
          disk.fs[i].file_id # NULL => disk.fs[i].file_id \in DOMAIN disk.data

(* A hardlink made by hardlink_to has been committed by a later call: the  *)
(* committed tree holds two names of one content row, counted twice.       *)
C21_Witness ==
    /\ \E p \in Paths, q \in Paths :
          /\ p # q
          /\ SameContent(disk.fs, p, q)
          /\ disk.data[disk.fs[Node(disk.fs, p)].file_id].link_count = 2
    /\ ~intx

----------------------------------------------------------------------------
(* C28: no two tree nodes share the same (name, parent_id), in the tree    *)
(* the connection sees and in the committed tree: each name occurs at most *)
(* once among the children of a directory.                                 *)
C28_UniqueNameParent ==
    \A f \in {fs, disk.fs} : \A i \in DOMAIN f, j \in DOMAIN f :
        (f[i].name = f[j].name /\ f[i].parent_id = f[j].parent_id) => i = j

(* A name that exists was given to hardlink_to, write_bytes or mkdir once  *)
(* more through a path object that had not resolved it: hardlink_to was    *)
(* refused by the insert itself.                                           *)
C28_Witness ==
    /\ last.op = "hardlink_to"
    /\ last.err = "FileExistsError"
    /\ last.path # <<>>
    /\ obj[last.path].file_id = UNSET
    /\ Node(fs, last.path) # NULL
    /\ Cardinality(DOMAIN fs) = 3

----------------------------------------------------------------------------
(* C24: rmdir(d) on a directory d with at least one child fails and leaves *)
(* d and its children as they were; on a directory without children it     *)
(* deletes exactly the node of d, and exists(d) is false afterwards.        *)
C24_RmdirRemovesEmptyDirectory ==
    [][(last'.op = "rmdir" /\ last'.path # <<>> /\ IsDirNode(fs, last'.path)) =>
        LET d == last'.path
        IN  IF ChildNodes(fs, d) # {}
            THEN /\ last'.err # "ok"
                 /\ fs' = fs
            ELSE /\ last'.err = "ok"
                 /\ DOMAIN fs' = DOMAIN fs \ {Node(fs, d)}
                 /\ \A i \in DOMAIN fs' : fs'[i] = fs[i]
                 /\ exists(Current', disk', NewObj, d).ret = FALSE]_vars

----------------------------------------------------------------------------
(* C29: in every state reached by the public operations, clear included,   *)
(* exactly one root node exists: it has the id ROOT_ID, no parent and no   *)
(* content, and no other node is without a parent.                         *)
C29_ExactlyOneRoot ==
    /\ ROOT_ID \in DOMAIN fs
    /\ fs[ROOT_ID].parent_id = NULL
    /\ fs[ROOT_ID].file_id = NULL
    /\ \A i \in DOMAIN fs : fs[i].parent_id = NULL => i = ROOT_ID

----------------------------------------------------------------------------
(* C30: a mkdir that fails, whatever parents and exist_ok are, inserts no  *)
(* tree node: the tree, the content rows and the committed state are as    *)
(* before the call, and when nothing was waiting for a commit before the   *)
(* call, nothing is waiting after it.                                      *)
C30_FailedMkdirLeavesNothing ==
    \A p \in Paths, parents \in BOOLEAN, exist_ok \in BOOLEAN :
        LET out == mkdir(Current, disk, obj[p], p, parents, exist_ok)
        IN  out.err # "ok" =>
                /\ out.st.fs = fs
                /\ out.st.data = data
                /\ out.disk = disk
                /\ Committed(Current) = disk => Committed(out.st) = out.disk

----------------------------------------------------------------------------
(* The segment sequence that raw strings stand for: the strings are put    *)
(* one after the other with a separator between them, and the segments are *)
(* the longest runs of characters that hold no separator.                  *)
RECURSIVE Joined(_)
Joined(args) ==
    IF args = <<>> THEN <<>>
    ELSE IF Len(args) = 1 THEN args[1]
    ELSE args[1] \o <<"/">> \o Joined(Tail(args))

RECURSIVE Tokens(_, _)
Tokens(text, run) ==
    LET done == IF run = <<>> THEN <<>> ELSE <<run>>
    IN  IF text = <<>> THEN done
        ELSE IF Head(text) = "/" THEN done \o Tokens(Tail(text), <<>>)
        ELSE Tokens(Tail(text), Append(run, Head(text)))

Normalised(args) == Tokens(Joined(args), <<>>)

(* The paths made of one string or of none, to compare a path with. *)
OtherPaths == [y \in OneArg |-> SqliteFsPath(y)]
OtherNormalised == [y \in OneArg |-> Normalised(y)]

(* C25: two paths are equal exactly when the strings they were made of     *)
(* normalise to the same segment sequence (split on the separator, empty   *)
(* components dropped), whatever trailing or doubled separators there are  *)
(* and however the strings were grouped into arguments; a path built with  *)
(* joinpath or with the / operator equals the path made of all the strings *)
(* at once.                                                                *)
C25_EqualIffSameSegments ==
    /\ HasReceiver =>
          LET mine == Normalised(pure.args)
          IN  \A y \in OneArg : \A o \in OtherPaths[y].made :
                  __eq__(Receiver, o) <=> (mine = OtherNormalised[y])
    /\ (pure.op \in {"joinpath", "__truediv__", "__rtruediv__"} /\ pure.err = "ok") =>
          LET all == IF pure.op = "__rtruediv__"
                     THEN pure.more \o pure.args
                     ELSE pure.args \o pure.more
              atonce == SqliteFsPath(all)
          IN  /\ atonce.made # {}
              /\ \A r \in pure.made : \A o \in atonce.made :
                    /\ __eq__(r, o)
                    /\ r.segments = Normalised(all)

(* A path made of two strings, one of them with a trailing separator, is   *)
(* equal to a path made of one string.                                     *)
C25_Witness ==
    /\ HasReceiver
    /\ Len(pure.args) = 2
    /\ endswith(pure.args[1], "/")
    /\ Len(Receiver.segments) = 2
    /\ \E y \in OneArg : \E o \in OtherPaths[y].made : __eq__(Receiver, o)

(* C26: making a path of raw strings raises ValueError and makes no path   *)
(* object whenever one of the strings, at any position, begins with the    *)
(* separator; the same holds for the strings given to joinpath and to the  *)
(* / operator.                                                             *)
C26_LeadingSeparatorRejected ==
    /\ (pure.op = "SqliteFsPath"
            /\ \E k \in 1..Len(pure.args) :
                  Len(pure.args[k]) > 0 /\ pure.args[k][1] = "/") =>
          (pure.err = "ValueError" /\ pure.made = {})
    /\ (pure.op \in {"joinpath", "__truediv__", "__rtruediv__"}
            /\ \E k \in 1..Len(pure.more) :
                  Len(pure.more[k]) > 0 /\ pure.more[k][1] = "/") =>
          (pure.err = "ValueError" /\ pure.made = {})

(* The second of two strings begins with the separator, the first does     *)
(* not, and the constructor has raised.                                    *)
C26_Witness ==
    /\ pure.op = "SqliteFsPath"
    /\ Len(pure.args) = 2
    /\ pure.args[1] = <<"a">>
    /\ pure.args[2] = <<"/", "a">>
    /\ pure.err = "ValueError"
    /\ pure.made = {}

(* C27: the suffix of a path is the part of its final segment from the     *)
(* last dot on when that dot is neither the first nor the last character   *)
(* of the segment, and is empty otherwise (also when the path has no       *)
(* segment); the stem is the rest, so stem followed by suffix is the name. *)
C27_SuffixAndStem ==
    (pure.op \in {"name", "suffix", "stem"}) =>
        LET x == Receiver
            final == IF x.segments = <<>> THEN <<>> ELSE Last(x.segments)
            dots == {i \in 1..Len(final) : final[i] = "."}
            expected == IF dots # {} /\ MaxOf(dots) # 1 /\ MaxOf(dots) # Len(final)
                        THEN SubSeq(final, MaxOf(dots), Len(final))
                        ELSE <<>>
        IN  /\ pure.op = "name" => pure.text = final
            /\ pure.op = "suffix" => pure.text = expected
            /\ pure.op = "stem" => pure.text \o expected = final
            /\ suffix(x) = expected
            /\ stem(x) \o suffix(x) = name(x)

(* The suffix of a name with a dot in its middle has been read. *)
C27_Witness ==
    /\ pure.op = "suffix"
    /\ name(Receiver) = <<"a", ".", "a">>
    /\ pure.text = <<".", "a">>

----------------------------------------------------------------------------
(* Both connections have ended their calls. *)
BothDone == \A c \in Conns : two.conn[c].pc = "done"

(* Both connections run op on the same path, which is absent when they     *)
(* begin. *)
SameAbsentPath(op) ==
    /\ \A c \in Conns : two.conn[c].op = op
    /\ two.conn[1].segs = two.conn[2].segs
    /\ Node(two.db0.fs, two.conn[1].segs) = NULL

(* C22: two connections run mkdir for the same absent name under the same  *)
(* parent (a directory that exists, or one that both calls create with     *)
(* parents=True), with the same exist_ok. Whatever the interleaving, when  *)
(* both calls have ended exactly one node has that name under that parent  *)
(* and it is a directory; with exist_ok=False one call succeeded and the   *)
(* other raised FileExistsError, with exist_ok=True both succeeded with    *)
(* the same node id.                                                       *)
C22_ConcurrentMkdir ==
    LET p == two.conn[1].segs
        parent == Node(two.db.fs, Front(p))
        errs == {two.conn[c].err : c \in Conns}
    IN  (/\ SameAbsentPath("mkdir")
         /\ two.conn[1].exist_ok = two.conn[2].exist_ok
         /\ \/ IsDirNode(two.db0.fs, Front(p))
            \/ /\ Node(two.db0.fs, Front(p)) = NULL
               /\ \A c \in Conns : two.conn[c].parents
         /\ BothDone) =>
            /\ parent # NULL
            /\ Cardinality(Lookup(two.db.fs, Last(p), parent)) = 1
            /\ IsDirNode(two.db.fs, p)
            /\ \A c \in Conns :
                  Cardinality(Lookup(View(c).fs, Last(p), parent)) = 1
            /\ IF two.conn[1].exist_ok
               THEN /\ errs = {"ok"}
                    /\ \A c \in Conns : two.conn[c].node_id = Node(two.db.fs, p)
               ELSE /\ errs = {"ok", "FileExistsError"}
                    /\ \E c \in Conns : two.conn[c].err = "ok"
                                        /\ two.conn[c].node_id = Node(two.db.fs, p)

(* Both connections have run mkdir(a/b) without exist_ok under the         *)
(* directory a: the first has the node, the second was refused.            *)
C22_Witness ==
    /\ SameAbsentPath("mkdir")
    /\ BothDone
    /\ two.conn[1].segs = <<"a", "b">>
    /\ IsDirNode(two.db0.fs, <<"a">>)
    /\ ~two.conn[1].exist_ok /\ ~two.conn[2].exist_ok
    /\ two.conn[1].err = "ok"
    /\ two.conn[2].err = "FileExistsError"
    /\ IsDirNode(two.db.fs, <<"a", "b">>)

(* C23: two connections run write_bytes on the same absent path under a    *)
(* directory that exists. No committed database holds a content row that   *)
(* no tree node references; when both calls have ended, one tree node and  *)
(* one content row have been added for the name; and a call that did not   *)
(* succeed raised FileNotFoundError, FileExistsError or PermissionError    *)
(* and left no change of its own waiting for a commit.                     *)
C23_ConcurrentFirstWrite ==
    LET p == two.conn[1].segs
        parent == Node(two.db.fs, Front(p))
    IN  (/\ SameAbsentPath("write_bytes")
         /\ IsDirNode(two.db0.fs, Front(p))) =>
            /\ \A k \in DOMAIN two.db.data : References(two.db.fs, k) # {}
            /\ BothDone =>
                  /\ Cardinality(Lookup(two.db.fs, Last(p), parent)) = 1
                  /\ Cardinality(DOMAIN two.db.data) = Cardinality(DOMAIN two.db0.data) + 1
            /\ \A c \in Conns :
                  (two.conn[c].pc = "done" /\ two.conn[c].err # "ok") =>
                      /\ two.conn[c].err \in
                            {"FileNotFoundError", "FileExistsError", "PermissionError"}
                      /\ View(c) = two.db

----------------------------------------------------------------------------
(* The errors of the taxonomy: not found, already exists or conflict,      *)
(* permission denied.                                                      *)
Taxonomy == {"FileNotFoundError", "FileExistsError", "PermissionError"}

(* The operations whose failures the taxonomy describes. *)
TaxonomyOps == {"mkdir", "read_bytes", "write_bytes", "hardlink_to", "iterdir", "stat"}

(* C31: every failure of mkdir, read_bytes, write_bytes, hardlink_to,      *)
(* iterdir or stat, on any path, the empty path and an empty hardlink      *)
(* target included, is FileNotFoundError, FileExistsError or               *)
(* PermissionError; no other kind of error reaches the caller.             *)
C31_OnlyTaxonomyErrors ==
    (last.op \in TaxonomyOps /\ last.err # "ok") => last.err \in Taxonomy

(* The segment sequences that name something below the root. *)
Named == Paths \ {<<>>}

(* C32: hardlink_to(new, target), new and target named, checks in a fixed  *)
(* order: a missing ancestor of new raises FileNotFoundError whatever the  *)
(* target is; with the ancestors in place a missing target raises          *)
(* FileNotFoundError and a directory target PermissionError, also when new *)
(* exists; FileExistsError is raised only when the ancestors are in place  *)
(* and the target is a file, and then whenever new exists. This holds on   *)
(* the path object kept for new as on a new one.                           *)
C32_HardlinkErrorOrder ==
    \A new \in Named, target \in Named : \A o \in Objects(new) :
        LET r == hardlink_to(Current, disk, o, new, target)
        IN  /\ BrokenAncestor(fs, new) => r.err = "FileNotFoundError"
            /\ (~BrokenAncestor(fs, new) /\ Node(fs, target) = NULL) =>
                   r.err = "FileNotFoundError"
            /\ (~BrokenAncestor(fs, new) /\ IsDirNode(fs, target)) =>
                   r.err = "PermissionError"
            /\ r.err = "FileExistsError" =>
                   ~BrokenAncestor(fs, new) /\ IsFileNode(fs, target)
            /\ (~BrokenAncestor(fs, new) /\ IsFileNode(fs, target) /\ Node(fs, new) # NULL) =>
                   r.err = "FileExistsError"

(* A link from a name that exists, through the path object that holds the  *)
(* name's resolution, to a target that does not exist has failed as not    *)
(* found.                                                                  *)
C32_Witness ==
    /\ last.op = "hardlink_to"
    /\ last.err = "FileNotFoundError"
    /\ last.target \in Named
    /\ Node(fs, last.path) # NULL
    /\ obj[last.path].file_id # UNSET
    /\ ~BrokenAncestor(fs, last.path)
    /\ Node(fs, last.target) = NULL

(* Following parent_id from node i of the tree f arrives at the root in at *)
(* most n steps.                                                           *)
RECURSIVE Climb(_, _, _)
Climb(f, i, n) ==
    IF i = ROOT_ID THEN TRUE
    ELSE IF n = 0 \/ i \notin DOMAIN f THEN FALSE
    ELSE Climb(f, f[i].parent_id, n - 1)

(* Every node of f but the root hangs below a directory of f, and below    *)
(* the root.                                                               *)
WellRooted(f) ==
    \A i \in DOMAIN f \ {ROOT_ID} :
        /\ f[i].parent_id \in DOMAIN f
        /\ f[f[i].parent_id].file_id = NULL
        /\ Climb(f, i, Cardinality(DOMAIN f))

(* C33: in every reachable state, in the tree the connection sees and in   *)
(* the committed tree, the parent_id of every node but the root names an   *)
(* existing node that is a directory, and following parent_id from any     *)
(* node arrives at the root: no node is under a file or under a missing    *)
(* parent, and there is no cycle.                                          *)
C33_ParentIsDirectory == WellRooted(fs) /\ WellRooted(disk.fs)

(* Every file_id of the tree f names a row of the content table d. *)
ContentPresent(f, d) == \A i \in DOMAIN f : f[i].file_id # NULL => f[i].file_id \in DOMAIN d

(* C34: in every reachable state the file_id of every file node names an   *)
(* existing content row, in what the connection sees and in what is        *)
(* committed; read_bytes and stat on a path that names a file find the     *)
(* content row and succeed, on the kept path object as on a new one.       *)
C34_ContentRowExists ==
    /\ ContentPresent(fs, data)
    /\ ContentPresent(disk.fs, disk.data)
    /\ \A p \in Named : IsFileNode(fs, p) =>
           \A o \in Objects(p) :
               /\ read_bytes(Current, disk, o, p).err = "ok"
               /\ stat(Current, disk, o, p).err = "ok"

(* A file has been read while its content row has a second name that is   *)
(* not committed.                                                          *)
C34_Witness ==
    /\ Succeeded("read_bytes")
    /\ IsFileNode(fs, last.path)
    /\ data[fs[Node(fs, last.path)].file_id].link_count = 2
    /\ Committed(Current) # disk

(* Every row of the tree f that is still in the tree g is the same row:    *)
(* the id keeps its name, its parent_id and its file_id.                   *)
RowsKept(f, g) == \A i \in DOMAIN f : i \in DOMAIN g => g[i] = f[i]

(* C35: once created, a tree node never changes: every step leaves the     *)
(* name, the parent_id and the file_id of every node it finds as they are, *)
(* in the connection's tree and in the committed tree. So no directory     *)
(* becomes a file, no file becomes a directory or takes another content    *)
(* row, and mkdir with exist_ok or parents on a name that exists leaves    *)
(* the row it finds, directory or file, unmodified.                        *)
C35_NodesNeverChange ==
    [][RowsKept(fs, fs') /\ RowsKept(disk.fs, disk'.fs)]_vars

(* mkdir with exist_ok on a name that a file holds has run its conditional *)
(* insert and failed; the file is still a file.                            *)
C35_Witness ==
    /\ last.op = "mkdir"
    /\ last.exist_ok
    /\ last.err = "FileExistsError"
    /\ IsFileNode(fs, last.path)
    /\ intx

(* Two calls have the same outcome: the same error or returned value, the  *)
(* same rows and counter in the connection's store, the same committed     *)
(* store.                                                                  *)
SameOutcome(x, y) ==
    /\ x.err = y.err
    /\ x.ret = y.ret
    /\ Committed(x.st) = Committed(y.st)
    /\ x.disk = y.disk

(* C36: the resolution a path object has cached is transparent: in every   *)
(* reachable state, stat, exists, is_file, is_dir, read_bytes, write_bytes *)
(* and hardlink_to on a path object that holds a resolution have the       *)
(* outcome they have on a new path object with the same segments, and      *)
(* leave the store and what is committed the same.                         *)
C36_CacheTransparent ==
    \A p \in Paths : obj[p].file_id # UNSET =>
        /\ SameOutcome(stat(Current, disk, obj[p], p), stat(Current, disk, NewObj, p))
        /\ SameOutcome(exists(Current, disk, obj[p], p), exists(Current, disk, NewObj, p))
        /\ SameOutcome(is_file(Current, disk, obj[p], p), is_file(Current, disk, NewObj, p))
        /\ SameOutcome(is_dir(Current, disk, obj[p], p), is_dir(Current, disk, NewObj, p))
        /\ SameOutcome(read_bytes(Current, disk, obj[p], p),
                       read_bytes(Current, disk, NewObj, p))
        /\ \A bytes \in Bytes :
               SameOutcome(write_bytes(Current, disk, obj[p], p, bytes),
                           write_bytes(Current, disk, NewObj, p, bytes))
        /\ \A target \in Paths :
               SameOutcome(hardlink_to(Current, disk, obj[p], p, target),
                           hardlink_to(Current, disk, NewObj, p, target))

(* C37: the empty path is the root directory: in every reachable state, on *)
(* the kept path object of the empty path as on a new one, exists and      *)
(* is_dir return true, is_file returns false, stat reports a directory     *)
(* with st_nlink 1, and iterdir yields the children of the root.           *)
C37_EmptyPathIsRoot ==
    \A o \in Objects(<<>>) :
        LET e == exists(Current, disk, o, <<>>)
            d == is_dir(Current, disk, o, <<>>)
            f == is_file(Current, disk, o, <<>>)
            s == stat(Current, disk, o, <<>>)
            l == iterdir(Current, disk, o, <<>>)
        IN  /\ e.err = "ok" /\ e.ret = TRUE
            /\ d.err = "ok" /\ d.ret = TRUE
            /\ f.err = "ok" /\ f.ret = FALSE
            /\ s.err = "ok" /\ s.ret.st_mode = S_IFDIR /\ s.ret.st_nlink = 1
            /\ l.err = "ok"
            /\ {l.ret[k].segments : k \in DOMAIN l.ret} =
                   {<<fs[i].name>> : i \in {j \in DOMAIN fs : fs[j].parent_id = ROOT_ID}}

(* The bytes read through the file node that q names in tree f with        *)
(* content table d.                                                        *)
BytesOf(f, d, q) == d[f[Node(f, q)].file_id].data

(* C38: a write_bytes(p, b) step, failed or not, changes the bytes of at   *)
(* most one content row, and that row is the one p names after the step;   *)
(* no content row is removed; every file that does not share its content   *)
(* row with p keeps its bytes; every link_count stays the same; and every  *)
(* tree node that existed is still there, unmodified.                      *)
C38_WriteTouchesOneRow ==
    [][last'.op = "write_bytes" =>
        LET p == last'.path
            changed == {k \in DOMAIN data :
                           k \notin DOMAIN data' \/ data'[k].data # data[k].data}
        IN  /\ Cardinality(changed) <= 1
            /\ \A k \in changed :
                   /\ k \in DOMAIN data'
                   /\ IsFileNode(fs', p)
                   /\ fs'[Node(fs', p)].file_id = k
            /\ \A q \in Named :
                   (IsFileNode(fs, q) /\ ~SameContent(fs, p, q)) =>
                       /\ IsFileNode(fs', q)
                       /\ BytesOf(fs', data', q) = BytesOf(fs, data, q)
            /\ \A k \in DOMAIN data :
                   k \in DOMAIN data' /\ data'[k].link_count = data[k].link_count
            /\ \A i \in DOMAIN fs : i \in DOMAIN fs' /\ fs'[i] = fs[i]]_vars

(* A file has been overwritten, through the path object that holds its     *)
(* file_id, with bytes that another file of the tree does not hold.        *)
C38_Witness ==
    /\ Succeeded("write_bytes")
    /\ obj[last.path].file_id # UNSET
    /\ intx
    /\ \E q \in Named :
        /\ IsFileNode(fs, q)
        /\ ~SameContent(fs, last.path, q)
        /\ BytesOf(fs, data, q) # last.bytes

====
